---- MODULE Spec2Model ----
(***************************************************************************)
(* Model of source/qa/canine_evaluation.py: the EvaluationArguments        *)
(* dataclass, the evaluate_finetuned_model pipeline and the __main__       *)
(* block.  Helpers imported from source.qa (Preprocessor,                  *)
(* remove_examples_longer_than_threshold, TokenizedDataset, evaluate) are  *)
(* not part of the file; they are modelled from the written specification. *)
(***************************************************************************)
EXTENDS Integers, Sequences, FiniteSets, TLC

VARIABLES
    pc,                  \* program point of the run
    error,               \* exception that ended the run, "none" otherwise
    trace,               \* pipeline stages started so far, in order
    caller,              \* "none", "main" (__main__ block) or "import" (direct call)
    argv,                \* the command line the script was started with
    args,                \* module-level global `args` of canine_evaluation.py
    params,              \* the arguments evaluate_finetuned_model was called with
    loaded,              \* what the dataset acquisition step fetched
    stdout,              \* lines printed so far
    validation,          \* datasets["validation"]
    pre_filter,          \* rows of the validation split handed to the length filter
    max_length,          \* parameter max_length, once read (0 before)
    doc_stride,          \* parameter doc_stride, once read
    batch_size,          \* parameter batch_size, once read (0 before)
    tokenized_validation,\* tokenized_datasets["validation"]
    validation_examples, \* the Feature set kept for the decoder
    val_loader,          \* batches produced by the DataLoader
    model,               \* loaded model weights (0 before loading)
    logits,              \* per consumed Feature, the model's start/end logits
    decode_args,         \* n_best_size, max_answer_length, squad_v2, once read
    predictions,         \* per post-filter Example, the decoded answer
    result               \* the returned score tuple, once computed

vars == <<pc, error, trace, caller, argv, args, params, loaded, stdout, validation,
          pre_filter, max_length, doc_stride, batch_size, tokenized_validation,
          validation_examples, val_loader, model, logits, decode_args,
          predictions, result>>

-----------------------------------------------------------------------------
(* Bounds of the model *)

MaxExamples == 2     \* raw validation examples per dataset
MaxContext == 3      \* longest context, in characters
MaxBatch == 2        \* largest batch_size tried

-----------------------------------------------------------------------------
(* Values *)

None == "None"

DatasetNames == {None, "xquad", "noisy", "squad"}
DataDirs == {None, "noisy_dir"}
Languages == {"xquad.en", "xquad.de"}

UndefinedArgs ==
    [defined |-> FALSE, dataset_name |-> None, data_dir |-> None, language |-> None]

ArgsGlobals ==
    {UndefinedArgs} \cup
    [defined : {TRUE}, dataset_name : DatasetNames, data_dir : DataDirs,
     language : Languages]

(* A global `args` an importing module may have set. *)
ImporterArgs ==
    [defined |-> TRUE, dataset_name |-> "xquad", data_dir |-> None,
     language |-> "xquad.en"]

NoParams == [dataset_name |-> None, data_dir |-> None, language |-> None]

NoDataset == [columns |-> {}, rows |-> <<>>]

NothingLoaded == [status |-> "unset", source |-> <<>>, message |-> <<>>]

Stages == <<"configure", "load", "preprocess", "filter", "tokenize", "batch",
            "infer", "decode", "score", "print">>

-----------------------------------------------------------------------------
(* EvaluationArguments.__post_init__: TRUE when the constructor raises       *)
(* ValueError.                                                              *)

PostInitNoisyOnly(dataset_name, data_dir) ==
    dataset_name = "noisy" /\ data_dir = None

PostInitRaises(dataset_name, data_dir) ==
    \/ (dataset_name = "noisy" /\ data_dir = None)
    \/ (data_dir # None /\ dataset_name # "noisy")

OnRaiseContinue(next_point) == next_point

(* Where control goes when a statement raises: nothing in the file catches   *)
(* an exception, so the run ends.                                            *)
OnRaise(next_point) == "aborted"

AcquireAnyBenchmark(dataset_name, data_dir, language, g) ==
    IF dataset_name = "noisy"
    THEN [status |-> "ok",
          source |-> <<"disk", data_dir>>,
          message |-> <<"Loading noisy dataset">>]
    ELSE IF g.defined
    THEN [status |-> "ok",
          source |-> <<"hub", dataset_name, language>>,
          message |-> <<"Loading dataset", g.language>>]
    ELSE [status |-> "NameError", source |-> <<>>, message |-> <<>>]

(* The first branch of evaluate_finetuned_model (lines 129-136), as a        *)
(* function of the parameters and of the module global `args` it reads.      *)
AcquireDataset(dataset_name, data_dir, language, g) ==
    IF dataset_name = "xquad"
    THEN IF g.defined
         THEN [status |-> "ok",
               source |-> <<"hub", "xquad", language>>,
               message |-> <<"Loading dataset", g.language>>]
         ELSE [status |-> "NameError", source |-> <<>>, message |-> <<>>]
    ELSE IF dataset_name = "noisy"
    THEN [status |-> "ok",
          source |-> <<"disk", data_dir>>,
          message |-> <<"Loading noisy dataset">>]
    ELSE [status |-> "NotImplementedError", source |-> <<>>, message |-> <<>>]

-----------------------------------------------------------------------------
(* Datasets: a schema (set of column names) and a sequence of rows, each row *)
(* a record over the schema.  A text is represented by its length.           *)

BaseColumns == {"id", "context", "question"}
AuxColumns == {"length_context", "length_question"}

ExampleValue(c, i, lc, lq) ==
    CASE c = "id" -> i
      [] c \in {"context", "length_context"} -> lc
      [] OTHER -> lq

ExampleRow(cols, i, lc, lq) == [c \in cols |-> ExampleValue(c, i, lc, lq)]

(* The validation splits a run can be given: up to MaxExamples examples, a   *)
(* one-character question each, with or without either auxiliary column.     *)
RawDatasets ==
    UNION {
        { [columns |-> BaseColumns \cup aux,
           rows |-> [i \in 1..n |-> ExampleRow(BaseColumns \cup aux, i, lcs[i], 1)]] :
             lcs \in [1..n -> 1..MaxContext], aux \in SUBSET AuxColumns }
        : n \in 0..MaxExamples }

(* Dataset.remove_columns: a new dataset without the columns; the library    *)
(* raises ValueError when a named column is not in the schema.               *)
RemoveColumnsRaises(ds, cols) == ~(cols \subseteq ds.columns)

RemoveColumns(ds, cols) ==
    [columns |-> ds.columns \ cols,
     rows |-> [i \in 1..Len(ds.rows) |->
                 [c \in ds.columns \ cols |-> ds.rows[i][c]]]]

(* Preprocessor.preprocess: adds the two length columns where they are not   *)
(* already present, when it computes length statistics at all.               *)
Preprocess(ds, compute) ==
    IF compute
    THEN [columns |-> ds.columns \cup AuxColumns,
          rows |-> [i \in 1..Len(ds.rows) |->
                      ExampleRow(ds.columns \cup AuxColumns, ds.rows[i].id,
                                 ds.rows[i].context, ds.rows[i].question)]]
    ELSE ds

(* remove_examples_longer_than_threshold *)
Threshold(max_len, stride) == max_len - stride

RECURSIVE KeepWithin(_, _)
KeepWithin(rows, limit) ==
    IF rows = <<>> THEN <<>>
    ELSE LET r == Head(rows)
             rest == KeepWithin(Tail(rows), limit)
         IN  IF r.context + r.question <= limit THEN <<r>> \o rest ELSE rest

remove_examples_longer_than_threshold(rows, max_len, stride) ==
    KeepWithin(rows, Threshold(max_len, stride))

FilterMaxLengthPlain(ml) == ml

(* The max_length argument the pipeline hands to the filter (line 144). *)
FilterMaxLength(ml) == ml * 2

(* The condition of line 148: `"length_context" and X` evaluates to X. *)
LengthColumnsGuard(cols) == "length_question" \in cols

-----------------------------------------------------------------------------
(* TokenizedDataset.tokenize: a window of max_length positions slides over   *)
(* the question followed by the context, in steps of max_length - doc_stride.*)
(* offset_mapping gives, per position, the character of the context it       *)
(* holds, and 0 for a question or padding position.                          *)

MaxLengthValues == {2, 3}
DocStrideValues == {0, 1}

RECURSIVE WindowStarts(_, _, _, _)
WindowStarts(st, total, ml, ds) ==
    IF st + ml >= total THEN <<st>>
    ELSE <<st>> \o WindowStarts(st + (ml - ds), total, ml, ds)

Feature(row, st, ml) ==
    [example_id |-> row.id,
     input_ids |-> st,
     offset_mapping |->
        [p \in 1..ml |->
            IF st + p > row.question /\ st + p <= row.question + row.context
            THEN st + p - row.question ELSE 0]]

FeatureColumns == {"example_id", "input_ids", "offset_mapping"}

RECURSIVE TokenizeRows(_, _, _)
TokenizeRows(rows, ml, ds) ==
    IF rows = <<>> THEN <<>>
    ELSE LET r == Head(rows)
             starts == WindowStarts(0, r.question + r.context, ml, ds)
         IN  [k \in 1..Len(starts) |-> Feature(r, starts[k], ml)]
             \o TokenizeRows(Tail(rows), ml, ds)

DecoderFeaturesAfterStrip(tokenized, stripped) == stripped

(* Lines 169-172: validation_examples is bound to the tokenized split before *)
(* example_id is removed from it.                                            *)
DecoderFeatures(tokenized, stripped) == tokenized

-----------------------------------------------------------------------------
(* torch DataLoader as configured on lines 180-186 *)

DropLastOff == FALSE

DropLast == TRUE

NumBatches(n, b) == IF DropLast THEN n \div b ELSE (n + b - 1) \div b

Min(a, b) == IF a <= b THEN a ELSE b

DataLoader(rows, b) ==
    [k \in 1..NumBatches(Len(rows), b) |->
        SubSeq(rows, (k - 1) * b + 1, Min(k * b, Len(rows)))]

RECURSIVE Flatten(_)
Flatten(batches) ==
    IF batches = <<>> THEN <<>> ELSE Head(batches) \o Flatten(Tail(batches))

-----------------------------------------------------------------------------
(* Model runner: frozen weights give each position a start and an end logit. *)
(* A stub model is identified by the positions its logits peak at.           *)

PeakPositions == {1, 2}
Models == [start_peak : PeakPositions, end_peak : PeakPositions]
NoModel == [start_peak |-> 0, end_peak |-> 0]

Dist(a, b) == IF a >= b THEN a - b ELSE b - a

ModelLogits(m, f) ==
    [start |-> [p \in DOMAIN f.offset_mapping |-> 0 - Dist(p, m.start_peak)],
     end   |-> [p \in DOMAIN f.offset_mapping |-> 0 - Dist(p, m.end_peak)]]

Forward(m, batches) ==
    LET fs == Flatten(batches) IN [i \in 1..Len(fs) |-> ModelLogits(m, fs[i])]

-----------------------------------------------------------------------------
(* evaluate: answer-span decoding.  Per Feature the n_best highest start and *)
(* end positions are ranked independently; a candidate pairs one of each.    *)

NBestValues == {1, 2}
MaxAnswerValues == {1, 2}

NoDecodeArgs == [n_best_size |-> 0, max_answer_length |-> 0, squad_v2 |-> FALSE]

PassedNBestSize(max_answer_length, n_best_size) == n_best_size

(* The max_answer_length evaluate is called with (line 203). *)
PassedMaxAnswerLength(max_answer_length, n_best_size) == max_answer_length

(* Positions holding the n highest values of v; of two equal values the      *)
(* later position ranks first.                                               *)
TopN(v, n) ==
    {p \in DOMAIN v :
        Cardinality({q \in DOMAIN v :
            v[q] > v[p] \/ (v[q] = v[p] /\ q > p)}) < n}

(* Candidates of Feature i; a Feature the model runner never saw has no      *)
(* logits to rank and contributes none.                                      *)
Candidates(i, lgs, n) ==
    IF i > Len(lgs) THEN {}
    ELSE {[f |-> i, s |-> s, e |-> e] :
            s \in TopN(lgs[i].start, n), e \in TopN(lgs[i].end, n)}

ValidCandidate(c, feats, mal) ==
    /\ c.e >= c.s
    /\ c.e - c.s + 1 <= mal
    /\ feats[c.f].offset_mapping[c.s] # 0
    /\ feats[c.f].offset_mapping[c.e] # 0

CandidateScore(c, lgs) == lgs[c.f].start[c.s] + lgs[c.f].end[c.e]

FeaturesOf(id, feats) == {i \in 1..Len(feats) : feats[i].example_id = id}

ValidCandidatesOf(id, feats, lgs, n, mal) ==
    {c \in UNION {Candidates(i, lgs, n) : i \in FeaturesOf(id, feats)} :
        ValidCandidate(c, feats, mal)}

CandidateOrder(c) == c.f * 100 + c.s * 10 + c.e

BestCandidate(cands, lgs) ==
    CHOOSE c \in cands :
        \A d \in cands :
            \/ CandidateScore(d, lgs) < CandidateScore(c, lgs)
            \/ /\ CandidateScore(d, lgs) = CandidateScore(c, lgs)
               /\ CandidateOrder(c) <= CandidateOrder(d)

(* The no-answer score of an Example: the lowest first-position logit pair   *)
(* over its Features.                                                        *)
NullScores(id, feats, lgs) ==
    {lgs[i].start[1] + lgs[i].end[1] :
        i \in {j \in FeaturesOf(id, feats) : j <= Len(lgs)}}

NoAnswerWins(id, feats, lgs, best) ==
    LET ns == NullScores(id, feats, lgs)
    IN  /\ ns # {}
        /\ \A x \in ns : (\A y \in ns : x <= y) => x > CandidateScore(best, lgs)

NoSpan == [f |-> 0, s |-> 0, e |-> 0]

(* The predicted answer of one Example: the span chosen and its text, given  *)
(* as the first and last character of the context it covers (<<>> is the     *)
(* empty string).                                                            *)
DecodeExample(id, feats, lgs, n, mal, v2) ==
    LET cands == ValidCandidatesOf(id, feats, lgs, n, mal)
    IN  IF cands = {}
        THEN [id |-> id, span |-> NoSpan, text |-> <<>>]
        ELSE LET best == BestCandidate(cands, lgs)
             IN  IF v2 /\ NoAnswerWins(id, feats, lgs, best)
                 THEN [id |-> id, span |-> NoSpan, text |-> <<>>]
                 ELSE [id |-> id, span |-> best,
                       text |-> <<feats[best.f].offset_mapping[best.s],
                                  feats[best.f].offset_mapping[best.e]>>]

Decode(val_rows, feats, lgs, n, mal, v2) ==
    [k \in 1..Len(val_rows) |-> DecodeExample(val_rows[k].id, feats, lgs, n, mal, v2)]

-----------------------------------------------------------------------------
(* The run *)

dataVars == <<loaded, validation, pre_filter, max_length, doc_stride, batch_size,
              tokenized_validation, validation_examples, val_loader, model,
              logits, decode_args, predictions, result>>

NoData ==
    /\ loaded = NothingLoaded
    /\ validation = NoDataset
    /\ pre_filter = <<>>
    /\ max_length = 0
    /\ doc_stride = 0
    /\ batch_size = 0
    /\ tokenized_validation = NoDataset
    /\ validation_examples = NoDataset
    /\ val_loader = <<>>
    /\ model = NoModel
    /\ logits = <<>>
    /\ decode_args = NoDecodeArgs
    /\ predictions = <<>>
    /\ result = <<>>

Init ==
    /\ pc = "start"
    /\ error = "none"
    /\ trace = <<>>
    /\ caller = "none"
    /\ argv = NoParams
    /\ args = UndefinedArgs
    /\ params = NoParams
    /\ stdout = <<>>
    /\ NoData

(* An exception raised while `stage` runs: it propagates out of the function *)
(* and out of the script, whose objects are gone with the process.           *)
Raise(err, stage, next_point) ==
    /\ pc' = OnRaise(next_point)
    /\ error' = err
    /\ trace' = IF stage = "" THEN trace ELSE Append(trace, stage)
    /\ loaded' = NothingLoaded
    /\ validation' = NoDataset
    /\ pre_filter' = <<>>
    /\ max_length' = 0
    /\ doc_stride' = 0
    /\ batch_size' = 0
    /\ tokenized_validation' = NoDataset
    /\ validation_examples' = NoDataset
    /\ val_loader' = <<>>
    /\ model' = NoModel
    /\ logits' = <<>>
    /\ decode_args' = NoDecodeArgs
    /\ predictions' = <<>>
    /\ result' = <<>>

(* __main__, lines 212-213: parse the command line into EvaluationArguments. *)
Construct ==
    /\ pc = "start"
    /\ \E dn \in DatasetNames, dd \in DataDirs, lang \in Languages :
        /\ caller' = "main"
        /\ argv' = [dataset_name |-> dn, data_dir |-> dd, language |-> lang]
        /\ IF PostInitRaises(dn, dd)
           THEN /\ Raise("ValueError", "configure", "configured")
                /\ UNCHANGED <<args, params, stdout>>
           ELSE /\ args' = [defined |-> TRUE, dataset_name |-> dn,
                            data_dir |-> dd, language |-> lang]
                /\ pc' = "configured"
                /\ trace' = Append(trace, "configure")
                /\ UNCHANGED <<error, params, stdout, dataVars>>

(* __main__, lines 215-228: the call with the parsed arguments. *)
CallFromMain ==
    /\ pc = "configured"
    /\ params' = [dataset_name |-> args.dataset_name, data_dir |-> args.data_dir,
                  language |-> args.language]
    /\ pc' = "called"
    /\ UNCHANGED <<error, trace, caller, argv, args, stdout, dataVars>>

(* A call of evaluate_finetuned_model from a module that imported the file:  *)
(* the global `args` is whatever that module left there, most often nothing. *)
CallFromImport ==
    /\ pc = "start"
    /\ \E dn \in DatasetNames, dd \in DataDirs, lang \in Languages,
          g \in {UndefinedArgs, ImporterArgs} :
        /\ caller' = "import"
        /\ argv' = argv
        /\ args' = g
        /\ params' = [dataset_name |-> dn, data_dir |-> dd, language |-> lang]
    /\ pc' = "called"
    /\ UNCHANGED <<error, trace, stdout, dataVars>>

(* Lines 129-136. *)
LoadDataset ==
    /\ pc = "called"
    /\ LET got == AcquireDataset(params.dataset_name, params.data_dir,
                                 params.language, args)
       IN  IF got.status # "ok"
           THEN /\ Raise(got.status, "load", "loaded")
                /\ UNCHANGED <<caller, argv, args, params, stdout>>
           ELSE /\ params.data_dir # None \/ params.dataset_name # "noisy"
                /\ \E ds \in RawDatasets :
                    /\ validation' = ds
                    /\ loaded' = got
                    /\ stdout' = Append(stdout, got.message)
                    /\ pc' = "loaded"
                    /\ trace' = Append(trace, "load")
                    /\ UNCHANGED <<error, caller, argv, args, params, pre_filter,
                                   max_length, doc_stride, batch_size,
                                   tokenized_validation, validation_examples,
                                   val_loader, model, logits, decode_args,
                                   predictions, result>>

(* A dataset, tokenizer, metric or weights file that cannot be loaded: the   *)
(* loading call raises (lines 131/134, 157, 174, 189-190).                   *)
ArtifactFailure ==
    /\ \/ /\ pc = "called"
          /\ AcquireDataset(params.dataset_name, params.data_dir,
                            params.language, args).status = "ok"
          /\ Raise("LoadError", "load", "loaded")
          /\ stdout' = Append(stdout,
                 AcquireDataset(params.dataset_name, params.data_dir,
                                params.language, args).message)
       \/ /\ pc = "cleaned"
          /\ Raise("LoadError", "tokenize", "tokenized")
          /\ UNCHANGED stdout
       \/ /\ pc = "tokenized"
          /\ Raise("LoadError", "batch", "batched")
          /\ UNCHANGED stdout
       \/ /\ pc = "batched"
          /\ Raise("LoadError", "infer", "model_loaded")
          /\ stdout' = Append(stdout, <<"Loading model">>)
    /\ UNCHANGED <<caller, argv, args, params>>

(* Lines 138-140. *)
PreprocessDataset ==
    /\ pc = "loaded"
    /\ \E compute \in BOOLEAN : validation' = Preprocess(validation, compute)
    /\ stdout' = Append(stdout, <<"Start preprocessing dataset">>)
    /\ pc' = "preprocessed"
    /\ trace' = Append(trace, "preprocess")
    /\ UNCHANGED <<error, caller, argv, args, params, loaded, pre_filter, max_length,
                   doc_stride, batch_size, tokenized_validation,
                   validation_examples, val_loader, model, logits, decode_args,
                   predictions, result>>

(* Lines 142-146.  max_length and doc_stride are arguments of the call; the  *)
(* model draws them where they are first read.                               *)
LengthFilter ==
    /\ pc = "preprocessed"
    /\ \E ml \in MaxLengthValues, ds \in DocStrideValues :
        /\ max_length' = ml
        /\ doc_stride' = ds
        /\ validation' =
             [columns |-> validation.columns,
              rows |-> remove_examples_longer_than_threshold(
                           validation.rows, FilterMaxLength(ml), ds)]
    /\ pre_filter' = validation.rows
    /\ pc' = "filtered"
    /\ trace' = Append(trace, "filter")
    /\ UNCHANGED <<error, caller, argv, args, params, loaded, stdout, batch_size,
                   tokenized_validation, validation_examples, val_loader, model,
                   logits, decode_args, predictions, result>>

(* Lines 148-154. *)
RemoveLengthColumns ==
    /\ pc = "filtered"
    /\ IF ~LengthColumnsGuard(validation.columns)
       THEN /\ pc' = "cleaned"
            /\ UNCHANGED <<error, trace, dataVars>>
       ELSE IF RemoveColumnsRaises(validation, {"length_context"})
       THEN Raise("ValueError", "", "cleaned")
       ELSE /\ validation' =
                 RemoveColumns(RemoveColumns(validation, {"length_context"}),
                               {"length_question"})
            /\ pc' = "cleaned"
            /\ UNCHANGED <<error, trace, loaded, pre_filter, max_length,
                           doc_stride, batch_size, tokenized_validation,
                           validation_examples, val_loader, model, logits,
                           decode_args, predictions, result>>
    /\ UNCHANGED <<caller, argv, args, params, stdout>>

(* Lines 156-167. *)
Tokenize ==
    /\ pc = "cleaned"
    /\ tokenized_validation' =
         [columns |-> FeatureColumns,
          rows |-> TokenizeRows(validation.rows, max_length, doc_stride)]
    /\ stdout' = Append(stdout, <<"Start tokenizing dataset">>)
    /\ pc' = "tokenized"
    /\ trace' = Append(trace, "tokenize")
    /\ UNCHANGED <<error, caller, argv, args, params, loaded, validation, pre_filter,
                   max_length, doc_stride, batch_size, validation_examples,
                   val_loader, model, logits, decode_args, predictions, result>>

(* Lines 169-186: keep the Features for the decoder, strip example_id, load  *)
(* the metric, build the DataLoader.  batch_size is drawn here, where it is  *)
(* first read.                                                               *)
Batch ==
    /\ pc = "tokenized"
    /\ LET stripped == RemoveColumns(tokenized_validation, {"example_id"})
       IN  /\ validation_examples' = DecoderFeatures(tokenized_validation, stripped)
           /\ tokenized_validation' = stripped
           /\ \E b \in 1..MaxBatch :
                /\ batch_size' = b
                /\ val_loader' = DataLoader(stripped.rows, b)
    /\ pc' = "batched"
    /\ trace' = Append(trace, "batch")
    /\ UNCHANGED <<error, caller, argv, args, params, loaded, stdout, validation,
                   pre_filter, max_length, doc_stride, model, logits,
                   decode_args, predictions, result>>

(* Lines 188-191. *)
LoadModel ==
    /\ pc = "batched"
    /\ \E m \in Models : model' = m
    /\ stdout' = Append(stdout, <<"Loading model">>)
    /\ pc' = "model_loaded"
    /\ trace' = Append(trace, "infer")
    /\ UNCHANGED <<error, caller, argv, args, params, loaded, validation, pre_filter,
                   max_length, doc_stride, batch_size, tokenized_validation,
                   validation_examples, val_loader, logits, decode_args,
                   predictions, result>>

(* evaluate (called on lines 193-206): one forward pass per batch. *)
Infer ==
    /\ pc = "model_loaded"
    /\ logits' = Forward(model, val_loader)
    /\ stdout' = Append(stdout, <<"Start evaluation">>)
    /\ pc' = "inferred"
    /\ UNCHANGED <<error, trace, caller, argv, args, params, loaded, validation,
                   pre_filter, max_length, doc_stride, batch_size,
                   tokenized_validation, validation_examples, val_loader, model,
                   decode_args, predictions, result>>

(* evaluate: one predicted answer per Example of val_dataset.  n_best_size,  *)
(* max_answer_length and squad_v2 are drawn here, where the outcome first    *)
(* depends on them.                                                          *)
DecodeAnswers ==
    /\ pc = "inferred"
    /\ \E n \in NBestValues, mal \in MaxAnswerValues, v2 \in BOOLEAN :
        /\ decode_args' = [n_best_size |-> n, max_answer_length |-> mal,
                           squad_v2 |-> v2]
        /\ predictions' =
             Decode(validation.rows, validation_examples.rows, logits, n,
                    PassedMaxAnswerLength(mal, n), v2)
    /\ pc' = "decoded"
    /\ trace' = Append(trace, "decode")
    /\ UNCHANGED <<error, caller, argv, args, params, loaded, stdout, validation,
                   pre_filter, max_length, doc_stride, batch_size,
                   tokenized_validation, validation_examples, val_loader, model,
                   logits, result>>

(* evaluate: the metric over the predictions; line 208 returns the tuple. *)
Score ==
    /\ pc = "decoded"
    /\ result' = <<"val_acc", "val_loss", "f1", "exact_match">>
    /\ pc' = "scored"
    /\ trace' = Append(trace, "score")
    /\ UNCHANGED <<error, caller, argv, args, params, loaded, stdout, validation,
                   pre_filter, max_length, doc_stride, batch_size,
                   tokenized_validation, validation_examples, val_loader, model,
                   logits, decode_args, predictions>>

(* __main__, lines 229-242. *)
PrintReport ==
    /\ pc = "scored"
    /\ caller = "main"
    /\ stdout' = Append(stdout, <<"Validation accuracy:">> \o result)
    /\ pc' = "printed"
    /\ trace' = Append(trace, "print")
    /\ UNCHANGED <<error, caller, argv, args, params, dataVars>>

(* The importing module receives the tuple. *)
ReturnToImporter ==
    /\ pc = "scored"
    /\ caller = "import"
    /\ pc' = "returned"
    /\ UNCHANGED <<error, trace, caller, argv, args, params, stdout, dataVars>>

Next ==
    \/ Construct
    \/ CallFromMain
    \/ CallFromImport
    \/ LoadDataset
    \/ ArtifactFailure
    \/ PreprocessDataset
    \/ LengthFilter
    \/ RemoveLengthColumns
    \/ Tokenize
    \/ Batch
    \/ LoadModel
    \/ Infer
    \/ DecodeAnswers
    \/ Score
    \/ PrintReport
    \/ ReturnToImporter

Spec == Init /\ [][Next]_vars

-----------------------------------------------------------------------------
(* Properties *)

Range(seq) == {seq[i] : i \in 1..Len(seq)}

ExactlyOne(a, b) == (a /\ ~b) \/ (b /\ ~a)

ConstructorFailed ==
    /\ pc = "aborted"
    /\ error = "ValueError"
    /\ trace = <<"configure">>

(* C1: constructing EvaluationArguments raises ValueError if and only if     *)
(* exactly one of `dataset_name == "noisy"` and `data_dir is not None`       *)
(* holds; in the two remaining combinations the object is constructed with   *)
(* the values given.                                                         *)
C1_PostInitIffExactlyOne ==
    caller = "main" =>
        /\ ConstructorFailed <=>
             ExactlyOne(argv.dataset_name = "noisy", argv.data_dir # None)
        /\ ~ConstructorFailed =>
             /\ args.defined
             /\ args.dataset_name = argv.dataset_name
             /\ args.data_dir = argv.data_dir

C1_Witness ==
    /\ caller = "main"
    /\ ConstructorFailed
    /\ argv.dataset_name = "noisy"
    /\ argv.data_dir = None

FunctionEntered == "load" \in Range(trace)

(* C2: called with a dataset_name other than "xquad" and "noisy", the        *)
(* function ends at once with NotImplementedError: nothing was loaded, no    *)
(* later stage ran, nothing was printed and no score tuple exists.           *)
C2_UnsupportedSelectorFailsAtOnce ==
    (FunctionEntered /\ params.dataset_name \notin {"xquad", "noisy"}) =>
        /\ pc = "aborted"
        /\ error = "NotImplementedError"
        /\ trace[Len(trace)] = "load"
        /\ stdout = <<>>
        /\ NoData

C2_Witness ==
    /\ FunctionEntered
    /\ params.dataset_name = "squad"
    /\ error = "NotImplementedError"

(* C3: between the length filter and tokenization the validation schema      *)
(* holds neither length_context nor length_question, whichever of the two    *)
(* the filtered set had, and removing them never raises.                     *)
C3_LengthColumnsRemoved ==
    /\ pc = "cleaned" => validation.columns \cap AuxColumns = {}
    /\ ~(pc = "aborted" /\ error = "ValueError" /\ trace # <<>>
         /\ trace[Len(trace)] = "filter")

RowLength(r) == r.context + r.question

Positions(r, rows) == {j \in 1..Len(rows) : rows[j] = r}

Batched ==
    pc \in {"batched", "model_loaded", "inferred", "decoded", "scored",
            "printed", "returned"}

(* C5: N Features and batch_size B give floor(N / B) batches of exactly B    *)
(* Features; batch k holds Features k*B .. (k+1)*B-1 (counted from 0) in     *)
(* their order, and the last N mod B Features are in no batch.               *)
C5_LoaderDropsPartialBatch ==
    Batched =>
        LET feats == tokenized_validation.rows
            n == Len(feats)
            b == batch_size
        IN  /\ b >= 1
            /\ Len(val_loader) * b <= n
            /\ n < (Len(val_loader) + 1) * b
            /\ \A k \in 1..Len(val_loader) :
                 /\ Len(val_loader[k]) = b
                 /\ \A j \in 1..b : val_loader[k][j] = feats[(k - 1) * b + j]

C5_Witness ==
    /\ Batched
    /\ Len(tokenized_validation.rows) = 3
    /\ batch_size = 2
    /\ Len(val_loader) = 1

Decoded == pc \in {"decoded", "scored", "printed", "returned"}

(* The answer predicted for the k-th Example is the text of a span of one of *)
(* its own Features with end >= start, at most max_answer_length positions   *)
(* and both endpoints on context characters.                                 *)
ValidSpanAnswer(k) ==
    LET p == predictions[k]
        feats == validation_examples.rows
    IN  /\ p.span # NoSpan
        /\ p.span.f \in 1..Len(feats)
        /\ feats[p.span.f].example_id = validation.rows[k].id
        /\ p.span.f <= Len(logits)
        /\ p.span.e >= p.span.s
        /\ p.span.e - p.span.s + 1 <= decode_args.max_answer_length
        /\ feats[p.span.f].offset_mapping[p.span.s] # 0
        /\ feats[p.span.f].offset_mapping[p.span.e] # 0
        /\ p.text = <<feats[p.span.f].offset_mapping[p.span.s],
                      feats[p.span.f].offset_mapping[p.span.e]>>

HasValidCandidate(k) ==
    ValidCandidatesOf(validation.rows[k].id, validation_examples.rows, logits,
                      decode_args.n_best_size, decode_args.max_answer_length) # {}

(* squad_v2 is set and the Example's no-answer score exceeds the score of    *)
(* every valid candidate.                                                    *)
NoAnswerBeatsAll(k) ==
    LET id == validation.rows[k].id
        feats == validation_examples.rows
        cands == ValidCandidatesOf(id, feats, logits, decode_args.n_best_size,
                                   decode_args.max_answer_length)
    IN  /\ decode_args.squad_v2
        /\ \A c \in cands : NoAnswerWins(id, feats, logits, c)

StageOffset == IF caller = "main" THEN 0 ELSE 1

ReportPrinted ==
    \E i \in 1..Len(stdout) : stdout[i][1] = "Validation accuracy:"

(* C7: the stages run at most once each, in the order configure, load,       *)
(* preprocess, filter, tokenize, batch, infer, decode, score, print (a call  *)
(* from an importing module starts at load); a failure ends the run in the   *)
(* stage it happened in, and the report is printed only after every stage    *)
(* succeeded.                                                                *)
C7_StagesLinearSinglePass ==
    /\ Len(trace) + StageOffset <= Len(Stages)
    /\ \A i \in 1..Len(trace) : trace[i] = Stages[i + StageOffset]
    /\ error # "none" => pc = "aborted" /\ ~ReportPrinted /\ result = <<>>
    /\ ReportPrinted => error = "none" /\ trace = Stages
    /\ pc = "printed" <=> ReportPrinted

C7_Witness ==
    /\ pc = "printed"
    /\ trace = Stages
    /\ Len(predictions) = 2

(* C8: example_id is stripped only from the Feature set given to the batch   *)
(* loader.  The decoder's Feature set is exactly what tokenization produced, *)
(* every Feature of it carries example_id, and it holds the Features of the  *)
(* batched set in the same order.                                            *)
C8_DecoderKeepsExampleId ==
    Batched =>
        LET dec == validation_examples
            bat == tokenized_validation
        IN  /\ "example_id" \in dec.columns
            /\ "example_id" \notin bat.columns
            /\ dec = [columns |-> FeatureColumns,
                      rows |-> TokenizeRows(validation.rows, max_length, doc_stride)]
            /\ Len(dec.rows) = Len(bat.rows)
            /\ \A i \in 1..Len(dec.rows) :
                 /\ DOMAIN dec.rows[i] = dec.columns
                 /\ DOMAIN bat.rows[i] = dec.columns \ {"example_id"}
                 /\ \A c \in DOMAIN bat.rows[i] : bat.rows[i][c] = dec.rows[i][c]

C8_Witness ==
    /\ pc = "decoded"
    /\ Len(validation_examples.rows) = 3
    /\ validation_examples.rows[3].example_id = 2

Inferred == pc \in {"inferred", "decoded", "scored", "printed", "returned"}

(* C9: every Feature handed to the decoder was in exactly one batch the      *)
(* model runner consumed, so the decoder finds logits for each of them.      *)
C9_EveryDecoderFeatureHasLogits ==
    Inferred =>
        /\ Len(logits) = Len(validation_examples.rows)
        /\ \A i \in 1..Len(validation_examples.rows) :
             Cardinality({k \in 1..Len(val_loader) :
                 (k - 1) * batch_size < i /\ i <= (k - 1) * batch_size
                                                   + Len(val_loader[k])}) = 1

(* C10: for dataset_name "xquad" the outcome of the acquisition step (what   *)
(* is loaded, success or failure) is the same whatever the module global     *)
(* `args` is, defined or not.                                                *)
C10_OutcomeIndependentOfGlobalArgs ==
    (FunctionEntered /\ params.dataset_name = "xquad") =>
        \A g \in ArgsGlobals :
            LET actual == AcquireDataset(params.dataset_name, params.data_dir,
                                         params.language, args)
                other == AcquireDataset(params.dataset_name, params.data_dir,
                                        params.language, g)
            IN  /\ other.status = actual.status
                /\ other.source = actual.source

====
